---- MODULE Spec2Model ----
(***************************************************************************)
(* Model of holistic.py: the EV route and charging-station booking app.    *)
(*                                                                         *)
(* Times are Python datetimes on 1900-01-01, held as seconds since that    *)
(* midnight.  A start-time text "HH:MM" is the tuple <<h, m>>; the store   *)
(* returns a time column as "HH:MM:SS", the tuple <<h, m, s>>.  Durations  *)
(* are counted in half hours (the step of the duration widget), so         *)
(* timedelta(hours=d) is d * 1800 seconds.  Energies are counted in half   *)
(* kWh in the same way.                                                    *)
(***************************************************************************)
EXTENDS Integers, Sequences, FiniteSets, TLC

VARIABLES
    store,      \* the rows of the "bookings" table, in insertion order
    sess,       \* per browser session: where its script run stands
    ov,         \* one call of is_time_overlap: its arguments and its result
    route,      \* one call of draw_route: its arguments and the map's lines
    geo         \* the station selection of main: its inputs and its outcome

vars == <<store, sess, ov, route, geo>>

(***************************************************************************)
(* Bounds and sample data.                                                 *)
(***************************************************************************)
MaxBookings == 2            \* rows the bookings table may hold
Sessions == {1, 2}          \* concurrent browser sessions
Dates == {1, 2}             \* booking dates (str(date))
StartTimes == {<<11, 0>>, <<11, 30>>}   \* the "Start Time (HH:MM)" text
Durations == {1, 2}         \* half hours: 0.5 h and 1 h
Energies == {1}             \* half kWh: 0.5 kWh

\* the rows get_chargers() returns
Chargers ==
    << [id |-> 1, station_id |-> 1, price_per_kwh |-> 2],
       [id |-> 2, station_id |-> 1, price_per_kwh |-> 3],
       [id |-> 3, station_id |-> 2, price_per_kwh |-> 2] >>

\* the ids of the rows of get_stations() that pass the proximity filter:
\* station 1; station 2 (charger 3) is out of reach
NearbyStationIds == {1}

ChargerIds == {Chargers[i].id : i \in 1..Len(Chargers)}

(***************************************************************************)
(* Helpers of the source.                                                  *)
(***************************************************************************)
\* datetime.strptime(s, "%H:%M")
ParseHM(s) == s[1] * 3600 + s[2] * 60

\* datetime.strptime(s, "%H:%M:%S")
ParseHMS(s) == s[1] * 3600 + s[2] * 60 + s[3]

\* a slip of the unit: timedelta(minutes=d)
TimedeltaMinutes(d) == d * 30

\* timedelta(hours=d), d in half hours
Timedelta(d) == d * 1800

\* the time column of the bookings table: "HH:MM" is stored, "HH:MM:SS" is read
TimeColumn(t) == <<t[1], t[2], 0>>

\* a slip of the comparison: closed intervals, touching windows collide
is_time_overlap_closed(start1, end1, start2, end2) ==
    start1 <= end2 /\ end1 >= start2

is_time_overlap(start1, end1, start2, end2) ==
    start1 < end2 /\ end1 > start2

\* supabase ... .eq("charger_id", charger_id).eq("date", date).execute().data
\* `down` is the charger id whose retrieval raises (0: none does)
get_bookings_for_charger(charger_id, date, down) ==
    IF charger_id = down
    THEN [err |-> TRUE, data |-> <<>>]
    ELSE [err |-> FALSE,
          data |-> SelectSeq(store,
                     LAMBDA b : b.charger_id = charger_id /\ b.date = date)]

\* a slip of the loop: `free` is set anew by every booking and nothing breaks
\* out, so the last booking alone decides
ScanBookingsLastDecides(bookings, preferred_start, preferred_end) ==
    IF bookings = <<>> THEN TRUE
    ELSE LET b == bookings[Len(bookings)]
             b_start == ParseHMS(b.start_time)
             b_end == b_start + Timedelta(b.duration_hours)
         IN  ~ is_time_overlap(preferred_start, preferred_end, b_start, b_end)

\* the inner loop of filter_available_chargers: free unless some booking overlaps
RECURSIVE ScanBookings(_, _, _)
ScanBookings(bookings, preferred_start, preferred_end) ==
    IF bookings = <<>> THEN TRUE
    ELSE LET b == Head(bookings)
             b_start == ParseHMS(b.start_time)
             b_end == b_start + Timedelta(b.duration_hours)
         IN  IF is_time_overlap(preferred_start, preferred_end, b_start, b_end)
             THEN FALSE
             ELSE ScanBookings(Tail(bookings), preferred_start, preferred_end)

\* the outer loop of filter_available_chargers; an exception of the retrieval
\* is not caught and leaves the function
RECURSIVE FilterLoop(_, _, _, _, _, _)
FilterLoop(chargers, date, preferred_start, preferred_end, down, available) ==
    IF chargers = <<>> THEN [err |-> FALSE, available |-> available]
    ELSE LET c == Head(chargers)
             got == get_bookings_for_charger(c.id, date, down)
         IN  IF got.err
             THEN [err |-> TRUE, available |-> <<>>]
             ELSE FilterLoop(Tail(chargers), date, preferred_start, preferred_end,
                             down,
                             IF ScanBookings(got.data, preferred_start, preferred_end)
                             THEN Append(available, c)
                             ELSE available)

filter_available_chargers(chargers, date, start_time_str, duration_hours, down) ==
    LET preferred_start == ParseHM(start_time_str)
        preferred_end == preferred_start + Timedelta(duration_hours)
    IN  FilterLoop(chargers, date, preferred_start, preferred_end, down, <<>>)

\* supabase.table("bookings").insert({...}).execute(): the table after the insert
create_booking(user_id, station_id, charger_id, date, start_time, duration, energy, price) ==
    Append(store,
           [user_id |-> user_id,
            station_id |-> station_id,
            charger_id |-> charger_id,
            date |-> date,
            start_time |-> TimeColumn(start_time),
            duration_hours |-> duration,
            energy_kwh |-> energy,
            price |-> price,
            status |-> "confirmed",
            payment_status |-> "pending"])

(***************************************************************************)
(* The booking part of main, one script run per session at a time.         *)
(***************************************************************************)
IdleSession ==
    [pc |-> "idle", station |-> 0, date |-> 0, start_time |-> <<0, 0>>,
     duration |-> 0, available |-> <<>>, down |-> 0]

\* st.session_state.user.id
UserOf(s) == s

\* main, "Booking Details" to "No available chargers": the widgets' values, the
\* chargers of the selected station and the availability filter.  The reads of
\* one filter call are taken as one snapshot of the table: a charger that is
\* booked later was read free at some moment before the insert, and the
\* snapshot is that moment.  `downs` are the retrieval failures considered.
Filter(s, downs) ==
    \E station \in NearbyStationIds, date \in Dates, start_time \in StartTimes,
       duration \in Durations, down \in downs :
        LET chargers == SelectSeq(Chargers, LAMBDA c : c.station_id = station)
            res == filter_available_chargers(chargers, date, start_time,
                                             duration, down)
            run == [pc |-> "filtered", station |-> station, date |-> date,
                    start_time |-> start_time, duration |-> duration,
                    available |-> res.available, down |-> 0]
        IN  /\ sess' = [sess EXCEPT ![s] =
                          IF res.err
                          THEN [run EXCEPT !.pc = "failed", !.down = down]
                          ELSE IF res.available = <<>>
                               THEN [run EXCEPT !.pc = "none_available"]
                               ELSE run]
            /\ UNCHANGED <<store, ov, route, geo>>

\* main, "Select Charger" to "Booking confirmed!": the charger picked among the
\* available ones, the energy widget and the insert
Confirm(s) ==
    /\ sess[s].pc = "filtered"
    /\ Len(store) < MaxBookings
    /\ \E k \in 1..Len(sess[s].available), energy \in Energies :
        LET charger == sess[s].available[k]
            price == energy * charger.price_per_kwh
        IN  store' = create_booking(UserOf(s), sess[s].station, charger.id,
                                    sess[s].date, sess[s].start_time,
                                    sess[s].duration, energy, price)
    /\ sess' = [sess EXCEPT ![s] = IdleSession]
    /\ UNCHANGED <<ov, route, geo>>

\* the parts of the state a specification does not exercise
OvIdle ==
    ov = [start1 |-> 0, end1 |-> 0, start2 |-> 0, end2 |-> 0,
          called |-> FALSE, result |-> FALSE]
RouteIdle ==
    route = [coords |-> <<>>, green_coord |-> <<>>, orange_coord |-> <<>>,
             red_coord |-> <<>>, drawn |-> FALSE, m |-> <<>>]
GeoIdle ==
    geo = [rz |-> <<>>, stations |-> <<>>, run |-> "idle",
           nearby_stations |-> <<>>]
BookIdle ==
    /\ store = <<>>
    /\ sess = [s \in Sessions |-> IdleSession]

Init ==
    BookIdle /\ OvIdle /\ RouteIdle /\ GeoIdle

\* any number of sessions running main against the one table
Next ==
    \E s \in Sessions : Filter(s, {0}) \/ Confirm(s)

Spec == Init /\ [][Next]_vars

(***************************************************************************)
(* One session alone on the table.                                         *)
(***************************************************************************)
NextSolo ==
    Filter(1, {0}) \/ Confirm(1)

SpecSolo == Init /\ [][NextSolo]_vars

(***************************************************************************)
(* filter_available_chargers as a function of the table: the table holds    *)
(* any rows (two sessions can leave overlapping ones), one call is made,    *)
(* and the retrieval of any one charger may fail.                          *)
(***************************************************************************)
\* (start_time, duration_hours) of the rows: 10:00-12:00, 11:00-11:30,
\* 11:30-12:00, 12:00-13:00
SnapshotWindows ==
    { <<<<10, 0, 0>>, 4>>, <<<<11, 0, 0>>, 1>>, <<<<11, 30, 0>>, 1>>,
      <<<<12, 0, 0>>, 2>> }

SnapshotRows ==
    { [user_id |-> 1, station_id |-> Chargers[k].station_id,
       charger_id |-> Chargers[k].id, date |-> d, start_time |-> w[1],
       duration_hours |-> w[2], energy_kwh |-> 1,
       price |-> Chargers[k].price_per_kwh, status |-> "confirmed",
       payment_status |-> "pending"] :
      k \in 1..Len(Chargers), d \in Dates, w \in SnapshotWindows }

InitFilter ==
    /\ store \in UNION { [1..n -> SnapshotRows] : n \in 0..MaxBookings }
    /\ sess = [s \in Sessions |-> IdleSession]
    /\ OvIdle /\ RouteIdle /\ GeoIdle

NextFilter ==
    /\ sess[1].pc = "idle"
    /\ Filter(1, {0} \cup ChargerIds)

SpecFilter == InitFilter /\ [][NextFilter]_vars

(***************************************************************************)
(* create_booking called as the committer of a request, whatever the       *)
(* request holds.                                                          *)
(***************************************************************************)
StationIds == {1, 2}
RequestStations == {1, 9}       \* 9: no such station
RequestChargers == {1, 9}       \* 9: no such charger
RequestDurations == {-1, 0, 1}
RequestEnergies == {0, 1}

Commit ==
    /\ Len(store) < MaxBookings
    /\ \E station_id \in RequestStations, charger_id \in RequestChargers,
          duration \in RequestDurations, energy \in RequestEnergies :
        store' = create_booking(1, station_id, charger_id, 1, <<11, 0>>,
                                duration, energy, energy * 2)
    /\ UNCHANGED <<sess, ov, route, geo>>

SpecCommit == Init /\ [][Commit]_vars

(***************************************************************************)
(* is_time_overlap on its own: two windows with end > start, in whole      *)
(* ticks, and one call.                                                    *)
(***************************************************************************)
MaxInstant == 4             \* the ticks 0..MaxInstant

InitOverlap ==
    /\ \E s1, e1, s2, e2 \in 0..MaxInstant :
         /\ s1 < e1 /\ s2 < e2
         /\ ov = [start1 |-> s1, end1 |-> e1, start2 |-> s2, end2 |-> e2,
                  called |-> FALSE, result |-> FALSE]
    /\ BookIdle /\ RouteIdle /\ GeoIdle

Overlap ==
    /\ ~ ov.called
    /\ ov' = [ov EXCEPT !.called = TRUE,
                        !.result = is_time_overlap(ov.start1, ov.end1,
                                                   ov.start2, ov.end2)]
    /\ UNCHANGED <<store, sess, route, geo>>

SpecOverlap == InitOverlap /\ [][Overlap]_vars

(***************************************************************************)
(* draw_route.  A coordinate is counted in half microdegrees, so the        *)
(* source's tolerance of 1e-6 degrees is 2.  An absent breakpoint (None, or *)
(* an empty dict: both are falsy) is <<>>.  The map m is the list of the    *)
(* PolyLines added to it, each with its color and its locations.            *)
(***************************************************************************)
MaxRouteLen == 3            \* coordinates of a route
Tolerance == 2
NoCoord == <<>>
NoIndex == -1               \* find_index returning None

Abs(x) == IF x < 0 THEN -x ELSE x

\* a slip of the slice: the end index taken as inclusive, one too short
SliceShort(seq, lo, hi) ==
    SubSeq(seq, lo + 1, IF hi - 1 < Len(seq) THEN hi - 1 ELSE Len(seq))

\* Python's seq[lo:hi] with 0 <= lo
Slice(seq, lo, hi) ==
    SubSeq(seq, lo + 1, IF hi < Len(seq) THEN hi ELSE Len(seq))

\* a slip of the loop: enumerate(coords, 1), every index one too high
RECURSIVE FindFromOne(_, _, _)
FindFromOne(coords, target, i) ==
    IF i >= Len(coords) THEN NoIndex
    ELSE IF /\ Abs(coords[i + 1].lat - target.lat) < Tolerance
            /\ Abs(coords[i + 1].lon - target.lon) < Tolerance
         THEN i + 1
         ELSE FindFromOne(coords, target, i + 1)

\* find_index's loop "for i, p in enumerate(coords)", from index i on
RECURSIVE FindFrom(_, _, _)
FindFrom(coords, target, i) ==
    IF i >= Len(coords) THEN NoIndex
    ELSE IF /\ Abs(coords[i + 1].lat - target.lat) < Tolerance
            /\ Abs(coords[i + 1].lon - target.lon) < Tolerance
         THEN i
         ELSE FindFrom(coords, target, i + 1)

find_index(coords, target) ==
    IF target = NoCoord THEN NoIndex ELSE FindFrom(coords, target, 0)

\* Python's truth of an index: None and 0 are falsy
Truthy(i) == i # NoIndex /\ i # 0

\* the lines draw_route adds to the map, in order
draw_route(coords, green_coord, orange_coord, red_coord) ==
    LET latlngs == [i \in 1..Len(coords) |-> <<coords[i].lat, coords[i].lon>>]
        gi0 == find_index(coords, green_coord)
        oi0 == find_index(coords, orange_coord)
        ri0 == find_index(coords, red_coord)
        gi == IF gi0 = NoIndex /\ green_coord # NoCoord
              THEN (Len(latlngs) * 3) \div 10 ELSE gi0
        oi == IF oi0 = NoIndex /\ orange_coord # NoCoord
              THEN (Len(latlngs) * 6) \div 10 ELSE oi0
        ri == IF ri0 = NoIndex /\ red_coord # NoCoord
              THEN (Len(latlngs) * 9) \div 10 ELSE ri0
        m1 == IF gi # NoIndex
              THEN << [color |-> "green",
                       locations |-> Slice(latlngs, 0, gi + 1)] >>
              ELSE << >>
        m2 == IF oi # NoIndex
              THEN Append(m1, [color |-> "orange",
                               locations |-> Slice(latlngs,
                                                   IF Truthy(gi) THEN gi ELSE 0,
                                                   oi + 1)])
              ELSE m1
        start == IF Truthy(oi) THEN oi ELSE IF Truthy(gi) THEN gi ELSE 0
    IN  Append(m2, [color |-> "red",
                    locations |-> Slice(latlngs, start, Len(latlngs))])

\* route points: the second lies within the tolerance of the first
RoutePoints ==
    { [lat |-> 0, lon |-> 0], [lat |-> 1, lon |-> 0],
      [lat |-> 0, lon |-> 4], [lat |-> 4, lon |-> 0] }

\* breakpoints: absent, a route point, or a point that matches no route point
Breakpoints == {NoCoord} \cup RoutePoints \cup { [lat |-> 8, lon |-> 8] }

\* a route of 10 coordinates whose index 3 is the first to match (0, 4)
ScenarioRoute ==
    [i \in 1..10 |-> IF i = 4 THEN [lat |-> 0, lon |-> 4]
                     ELSE IF i < 4 THEN [lat |-> 0, lon |-> 0]
                     ELSE [lat |-> 4, lon |-> 0]]

\* main calls draw_route only with a non-empty route
InitRoute ==
    /\ \E coords \in UNION { [1..n -> RoutePoints] : n \in 1..MaxRouteLen }
                      \cup {ScenarioRoute},
          g \in Breakpoints, o \in Breakpoints, r \in Breakpoints :
         route = [coords |-> coords, green_coord |-> g, orange_coord |-> o,
                  red_coord |-> r, drawn |-> FALSE, m |-> <<>>]
    /\ BookIdle /\ OvIdle /\ GeoIdle

DrawRoute ==
    /\ ~ route.drawn
    /\ route' = [route EXCEPT
                   !.drawn = TRUE,
                   !.m = draw_route(route.coords, route.green_coord,
                                    route.orange_coord, route.red_coord)]
    /\ UNCHANGED <<store, sess, ov, geo>>

SpecRoute == InitRoute /\ [][DrawRoute]_vars

(***************************************************************************)
(* haversine and the station selection of main.  Coordinates are whole      *)
(* degrees on a small grid: two points one degree of longitude apart, and   *)
(* points 60 and about 90 degrees away.  The haversine term a and the       *)
(* trigonometric terms are fixed-point numbers: a and sin**2 in millionths, *)
(* cos in thousandths, the angle in microradians.                           *)
(***************************************************************************)
MaxStations == 2            \* rows of the stations table
R == 6371
RadiusKm == 200
GeoLats == {0, 60}
GeoLons == {0, 1, 90}

\* x * y / 10^6 rounded down, without leaving 32 bits
MulMicro(x, y) ==
    (x * (y \div 1000) + (x * (y % 1000)) \div 1000) \div 1000

\* sin(radians(d) / 2) ** 2, in millionths
SinSqHalfMicro(d) ==
    CASE Abs(d) = 0 -> 0
      [] Abs(d) = 1 -> 76
      [] Abs(d) = 60 -> 250000
      [] Abs(d) = 89 -> 491274
      [] Abs(d) = 90 -> 500000

\* cos(radians(lat)), in thousandths
CosMilli(lat) == IF lat = 0 THEN 1000 ELSE 500

\* atan2(sqrt(a), sqrt(1/a)), which is atan(a), in microradians, for the
\* values of a (in millionths) the grid gives
AtanMicro(a) ==
    CASE a = 19 -> 18
      [] a = 76 -> 75
      [] a = 122818 -> 122205
      [] a = 125000 -> 124354
      [] a = 250000 -> 244978
      [] a = 250038 -> 245014
      [] a = 491274 -> 456642
      [] a = 495637 -> 460151
      [] a = 500000 -> 463647

\* the distance in whole km, or the ZeroDivisionError of 1/a at a = 0
haversine(lat1, lon1, lat2, lon2) ==
    LET dlat == lat2 - lat1
        dlon == lon2 - lon1
        a == SinSqHalfMicro(dlat)
               + MulMicro(CosMilli(lat1) * CosMilli(lat2), SinSqHalfMicro(dlon))
    IN  IF a = 0
        THEN [err |-> TRUE, km |-> 0]
        ELSE [err |-> FALSE, km |-> MulMicro(R * 2, AtanMicro(a))]

\* main's loop over get_stations(); an exception of haversine leaves it
RECURSIVE NearbyLoop(_, _, _)
NearbyLoop(rz, stations, nearby_stations) ==
    IF stations = <<>> THEN [err |-> FALSE, nearby_stations |-> nearby_stations]
    ELSE LET s == Head(stations)
             d == haversine(rz.lat, rz.lon, s.latitude, s.longitude)
         IN  IF d.err
             THEN [err |-> TRUE, nearby_stations |-> <<>>]
             ELSE NearbyLoop(rz, Tail(stations),
                             IF d.km <= RadiusKm
                             THEN Append(nearby_stations, s)
                             ELSE nearby_stations)

InitGeo ==
    /\ \E rz \in {NoCoord} \cup [lat : GeoLats, lon : GeoLons],
          n \in 0..MaxStations :
         \E pts \in [1..n -> [latitude : GeoLats, longitude : GeoLons]] :
            geo = [rz |-> rz,
                   stations |-> [i \in 1..n |->
                                   [id |-> i, latitude |-> pts[i].latitude,
                                    longitude |-> pts[i].longitude]],
                   run |-> "idle", nearby_stations |-> <<>>]
    /\ BookIdle /\ OvIdle /\ RouteIdle

\* main, "Select Station & Charger" up to the station selectbox
SelectStation ==
    /\ geo.run = "idle"
    /\ LET res == IF geo.rz # NoCoord
                  THEN NearbyLoop(geo.rz, geo.stations, <<>>)
                  ELSE [err |-> FALSE, nearby_stations |-> <<>>]
       IN  geo' = [geo EXCEPT
                     !.run = IF res.err THEN "ZeroDivisionError"
                             ELSE IF res.nearby_stations = <<>>
                                  THEN "no_stations" ELSE "selectbox",
                     !.nearby_stations = res.nearby_stations]
    /\ UNCHANGED <<store, sess, ov, route>>

SpecGeo == InitGeo /\ [][SelectStation]_vars

(***************************************************************************)
(* The claims about bookings.  Windows are read here from the rows and the *)
(* widgets directly, as [start, start + duration) in seconds.              *)
(***************************************************************************)
RowStart(b) == b.start_time[1] * 3600 + b.start_time[2] * 60 + b.start_time[3]
RowEnd(b) == RowStart(b) + b.duration_hours * 1800
RequestStart(s) == sess[s].start_time[1] * 3600 + sess[s].start_time[2] * 60
RequestEnd(s) == RequestStart(s) + sess[s].duration * 1800
Disjoint(s1, e1, s2, e2) == e1 <= s2 \/ e2 <= s1
SameChargerAndDate(a, b) == a.charger_id = b.charger_id /\ a.date = b.date
RowsDisjoint(a, b) == Disjoint(RowStart(a), RowEnd(a), RowStart(b), RowEnd(b))
StationChargers(s) == SelectSeq(Chargers, LAMBDA c : c.station_id = sess[s].station)
\* no stored booking of charger c on the session's date meets its requested window
FreeFor(c, s) ==
    \A i \in 1..Len(store) :
        (store[i].charger_id = c.id /\ store[i].date = sess[s].date)
        => Disjoint(RowStart(store[i]), RowEnd(store[i]),
                    RequestStart(s), RequestEnd(s))
LastRow(tbl) == tbl[Len(tbl)]

\* C1: in every reachable state, whatever the interleaving of the sessions'
\* filters and confirmations, the bookings of one charger on one date have
\* pairwise non-overlapping windows.
CE_C1 ==
    \A i, j \in 1..Len(store) :
        (i < j /\ SameChargerAndDate(store[i], store[j]))
        => RowsDisjoint(store[i], store[j])

\* C2: a commit for a charger and date whose window overlaps a booking already
\* committed is refused: no step adds a row that overlaps a stored row of the
\* same charger and date.
CE_C2 ==
    [][ Len(store') > Len(store)
        => \A i \in 1..Len(store) :
             SameChargerAndDate(store[i], LastRow(store'))
             => RowsDisjoint(store[i], LastRow(store')) ]_vars

\* C3: a finished filter call returns exactly the chargers of the station, in
\* their input order, none of whose bookings on the date overlaps the requested
\* window.
T_C3 ==
    \A s \in Sessions :
        sess[s].pc \in {"filtered", "none_available"}
        => sess[s].available
             = SelectSeq(StationChargers(s), LAMBDA c : FreeFor(c, s))

\* the scenario of C3: charger 1 booked 10:00-12:00, charger 2 without a
\* booking, request 11:00 for 1 h: charger 2 alone is returned
W_C3 ==
    /\ sess[1].pc = "filtered"
    /\ sess[1].start_time = <<11, 0>> /\ sess[1].duration = 2
    /\ \E i \in 1..Len(store) :
         /\ store[i].charger_id = 1 /\ store[i].date = sess[1].date
         /\ store[i].start_time = <<10, 0, 0>> /\ store[i].duration_hours = 4
    /\ \A i \in 1..Len(store) :
         ~ (store[i].charger_id = 2 /\ store[i].date = sess[1].date)
    /\ Len(sess[1].available) = 1 /\ sess[1].available[1].id = 2

\* C5: when the retrieval of one charger's bookings fails during a filter call,
\* the call still completes and returns the other chargers that are free.
CE_C5 ==
    \A s \in Sessions :
        sess[s].down # 0
        => /\ sess[s].pc \in {"filtered", "none_available"}
           /\ sess[s].available
                = SelectSeq(StationChargers(s),
                            LAMBDA c : c.id # sess[s].down /\ FreeFor(c, s))

\* C9: every booking in the store has a positive duration and a positive
\* energy and names an existing charger and an existing station (a request
\* that breaks any of these is refused).
CE_C9 ==
    \A i \in 1..Len(store) :
        /\ store[i].duration_hours > 0
        /\ store[i].energy_kwh > 0
        /\ store[i].charger_id \in ChargerIds
        /\ store[i].station_id \in StationIds

\* C10: with one session alone, every booking a confirmation inserts is for a
\* charger the filter of the same run returned for the same date, start time
\* and duration, and overlaps no booking stored for that charger and date; and
\* whatever a run offers is free in the table as it then stands, so a rerun
\* after a confirmation does not offer the charger just booked.
T_C10 ==
    [][ /\ Len(store') > Len(store)
           => LET r == LastRow(store')
              IN  /\ \E k \in 1..Len(sess[1].available) :
                       sess[1].available[k].id = r.charger_id
                  /\ r.date = sess[1].date
                  /\ RowStart(r) = RequestStart(1)
                  /\ RowEnd(r) = RequestEnd(1)
                  /\ \A i \in 1..Len(store) :
                       SameChargerAndDate(store[i], r) => RowsDisjoint(store[i], r)
        /\ sess'[1].pc = "filtered"
           => \A k \in 1..Len(sess'[1].available) :
                \A i \in 1..Len(store') :
                    ( store'[i].charger_id = sess'[1].available[k].id
                      /\ store'[i].date = sess'[1].date )
                    => Disjoint(RowStart(store'[i]), RowEnd(store'[i]),
                                sess'[1].start_time[1] * 3600
                                  + sess'[1].start_time[2] * 60,
                                sess'[1].start_time[1] * 3600
                                  + sess'[1].start_time[2] * 60
                                  + sess'[1].duration * 1800) ]_vars

\* two confirmations on one charger and date, and a rerun for the window just
\* booked that no longer offers that charger
W_C10 ==
    /\ Len(store) = 2
    /\ SameChargerAndDate(store[1], store[2])
    /\ sess[1].pc = "filtered"
    /\ sess[1].date = store[2].date
    /\ RequestStart(1) = RowStart(store[2]) /\ RequestEnd(1) = RowEnd(store[2])
    /\ \A k \in 1..Len(sess[1].available) :
         sess[1].available[k].id # store[2].charger_id

(***************************************************************************)
(* The claim about is_time_overlap.                                        *)
(***************************************************************************)
\* C4: is_time_overlap is the intersection of half-open windows: it is true
\* exactly when [start1, end1) and [start2, end2) share a tick; windows that
\* only touch do not overlap, and a window of positive duration overlaps
\* itself.
T_C4 ==
    ov.called
    => /\ ov.result
           <=> ((ov.start1 .. ov.end1 - 1) \cap (ov.start2 .. ov.end2 - 1) # {})
       /\ (ov.end1 = ov.start2 => ~ ov.result)
       /\ (ov.start1 = ov.start2 /\ ov.end1 = ov.end2 => ov.result)

\* two windows that touch have been compared
W_C4 ==
    ov.called /\ ov.end1 = ov.start2 /\ ~ ov.result

(***************************************************************************)
(* The claims about draw_route.  The route and the matches are read here   *)
(* from the arguments directly; indices count from 0 as in the source.     *)
(***************************************************************************)
RouteLatLngs ==
    [i \in 1..Len(route.coords) |-> <<route.coords[i].lat, route.coords[i].lon>>]
Supplied(t) == t # <<>>
Near(p, t) ==
    /\ p.lat - t.lat < 2 /\ t.lat - p.lat < 2
    /\ p.lon - t.lon < 2 /\ t.lon - p.lon < 2
Matches(t) == \E i \in 1..Len(route.coords) : Near(route.coords[i], t)
\* the boundary index of a supplied breakpoint: its first match, or else the
\* given percentage of the route length, rounded down
Boundary(t, percent) ==
    IF Matches(t)
    THEN CHOOSE i \in 0..Len(route.coords) - 1 :
            /\ Near(route.coords[i + 1], t)
            /\ \A j \in 0..i - 1 : ~ Near(route.coords[j + 1], t)
    ELSE (Len(route.coords) * percent) \div 100
GreenIndex == Boundary(route.green_coord, 30)
OrangeIndex == Boundary(route.orange_coord, 60)
\* the coordinates at the indices lo..hi
Segment(lo, hi) == [i \in 1..(hi - lo + 1) |-> RouteLatLngs[lo + i]]
DropFirst(seq) == IF seq = <<>> THEN <<>> ELSE Tail(seq)
\* the lines' locations one after the other, each shared boundary point once
RECURSIVE JoinLines(_)
JoinLines(ls) ==
    IF ls = <<>> THEN <<>>
    ELSE IF Len(ls) = 1 THEN ls[1].locations
    ELSE JoinLines(SubSeq(ls, 1, Len(ls) - 1)) \o DropFirst(ls[Len(ls)].locations)
Colors(ls) == [k \in 1..Len(ls) |-> ls[k].color]
AllSuppliedAndMatched ==
    /\ Supplied(route.green_coord) /\ Matches(route.green_coord)
    /\ Supplied(route.orange_coord) /\ Matches(route.orange_coord)
    /\ Supplied(route.red_coord) /\ Matches(route.red_coord)
BreakpointOf(color) ==
    IF color = "green" THEN route.green_coord
    ELSE IF color = "orange" THEN route.orange_coord
    ELSE route.red_coord
\* the boundary index of the last supplied breakpoint before a color, or 0
StartOf(color) ==
    IF color = "green" THEN 0
    ELSE IF color = "orange"
         THEN (IF Supplied(route.green_coord) THEN GreenIndex ELSE 0)
         ELSE IF Supplied(route.orange_coord) THEN OrangeIndex
              ELSE IF Supplied(route.green_coord) THEN GreenIndex ELSE 0

\* C6 as stated: with all three breakpoints supplied and each matching a
\* coordinate of the route, the green, orange and red segments, joined with
\* each shared boundary point once, are the route's coordinate sequence.
CE_C6 ==
    (route.drawn /\ AllSuppliedAndMatched)
    => /\ Colors(route.m) = <<"green", "orange", "red">>
       /\ JoinLines(route.m) = RouteLatLngs

\* C6 as amended: the same, for breakpoints whose matches lie in route order,
\* green's first match not after orange's.
T_C6 ==
    (route.drawn /\ AllSuppliedAndMatched /\ GreenIndex <= OrangeIndex)
    => /\ Colors(route.m) = <<"green", "orange", "red">>
       /\ JoinLines(route.m) = RouteLatLngs

\* three breakpoints matched in route order, green's past the first coordinate
W_C6 ==
    /\ route.drawn /\ AllSuppliedAndMatched
    /\ 0 < GreenIndex /\ GreenIndex < OrangeIndex
    /\ OrangeIndex < Len(route.coords) - 1
    /\ Len(route.m) = 3

\* C7 as stated: a segment of a color is emitted only if that color's
\* breakpoint was supplied, and every emitted segment starts at the boundary
\* index of the last supplied breakpoint before it (0 if none).
CE_C7 ==
    route.drawn
    => \A k \in 1..Len(route.m) :
         /\ Supplied(BreakpointOf(route.m[k].color))
         /\ route.m[k].locations # <<>>
         /\ route.m[k].locations[1] = RouteLatLngs[StartOf(route.m[k].color) + 1]

\* C7 as amended: green and orange are emitted exactly when supplied, red is
\* emitted always (also without a red breakpoint) and runs to the end of the
\* route; each segment starts at the boundary index of the last supplied
\* breakpoint among green and orange before it (0 if none); this for
\* breakpoints where green's boundary index is not after orange's when both
\* are supplied.
T_C7 ==
    ( /\ route.drawn
      /\ (Supplied(route.green_coord) /\ Supplied(route.orange_coord))
           => GreenIndex <= OrangeIndex )
    => route.m
         = (IF Supplied(route.green_coord)
            THEN << [color |-> "green",
                     locations |-> Segment(0, GreenIndex)] >>
            ELSE << >>)
           \o (IF Supplied(route.orange_coord)
               THEN << [color |-> "orange",
                        locations |-> Segment(StartOf("orange"), OrangeIndex)] >>
               ELSE << >>)
           \o << [color |-> "red",
                  locations |-> Segment(StartOf("red"),
                                        Len(route.coords) - 1)] >>

\* the scenario of C7: 10 coordinates, green matching index 3, orange and red
\* absent: green over the indices 0-3, red over 3-9, no orange
W_C7 ==
    /\ route.drawn
    /\ Len(route.coords) = 10
    /\ Supplied(route.green_coord) /\ GreenIndex = 3
    /\ ~ Supplied(route.orange_coord) /\ ~ Supplied(route.red_coord)
    /\ Colors(route.m) = <<"green", "red">>
    /\ route.m[1].locations = Segment(0, 3)
    /\ route.m[2].locations = Segment(3, 9)

(***************************************************************************)
(* The claim about haversine.                                              *)
(***************************************************************************)
\* C8: the distance of a coordinate to itself is 0 and raises nothing, so a
\* station lying exactly at the red-zone coordinate passes the proximity
\* filter.
CE_C8 ==
    (geo.run # "idle" /\ geo.rz # <<>>)
    => \A i \in 1..Len(geo.stations) :
         ( geo.stations[i].latitude = geo.rz.lat
           /\ geo.stations[i].longitude = geo.rz.lon )
         => /\ geo.run # "ZeroDivisionError"
            /\ \E k \in 1..Len(geo.nearby_stations) :
                 geo.nearby_stations[k] = geo.stations[i]

====
